---------------------------- MODULE Spec2Model ----------------------------
(***************************************************************************)
(* A model of the handle wrappers of fmod-oxide / fmod-rs: the two-phase   *)
(* string and list queries, the bank loading state queries, the Studio     *)
(* System with the validity of its handles, the release of a Geometry with *)
(* its userdata association and the release of a DSP unit.                 *)
(*                                                                         *)
(* The native engine (the FMOD_* functions) is the environment.  Its       *)
(* documented behaviour is taken from the doc comments of the wrappers; it *)
(* may fail a call with an error code and its collections may change       *)
(* between the two calls of a two-phase query.                             *)
(***************************************************************************)
EXTENDS Integers, Sequences, FiniteSets, TLC

VARIABLES
    debug_assertions,   \* build profile: debug_assert_eq! is compiled in
    nativeText,         \* engine: the authored text a string query reads
    sq,                 \* the two-phase string query in progress
    nativeCount,        \* engine: number of objects of each kind
    lq,                 \* the two-phase list query in progress
    bank,               \* engine: the state of the bank
    last,               \* the last completed call on the studio bank API
    studio,             \* engine: the Studio System (alive, handles issued)
    events,             \* the banks the caller holds an EventDescription of
    buffer,             \* the caller's memory behind a load_bank_pointer
    geoms,              \* engine: each Geometry (alive, userdata slot)
    table,              \* the process-wide userdata side-table
    th,                 \* the calls in progress on the Geometry API
    given,              \* history: the data last given to each Geometry
    dsps,               \* engine: each DSP unit (detached, attached, released)
    lastDsp,            \* the last completed Dsp::release
    poly,               \* engine: the polygons of a Geometry and its capacity
    lastPoly,           \* the last completed call on the polygons
    built,              \* the construction of Studio Systems, engine and caller
    lastBuild           \* the last completed call of the construction

stringVars == <<nativeText, sq>>
listVars   == <<nativeCount, lq>>
studioVars == <<studio, events, buffer>>
bankVars   == <<bank, last, studioVars>>
geomVars   == <<geoms, table, th, given>>
dspVars    == <<dsps, lastDsp>>
polyVars   == <<poly, lastPoly>>
buildVars  == <<built, lastBuild>>
vars == <<debug_assertions, stringVars, listVars, bankVars, geomVars, dspVars,
          polyVars, buildVars>>

---------------------------------------------------------------------------
(* Bounds of the model. *)
MaxLen == 2         \* longest authored text, in bytes
MaxCount == 2       \* most objects of one kind
MaxRequests == 2    \* most outstanding load_sample_data requests
MaxKeys == 2        \* most entries of the userdata table
MaxLoads == 2       \* most banks loaded, one after the other
MaxOthers == 1      \* most banks that stay loaded throughout
MaxPolygons == 2    \* largest polygon capacity of a Geometry
MaxVertices == 3    \* largest vertex capacity, and most vertices of a polygon
MaxSystems == 3     \* most native Studio Systems created, one after the other

---------------------------------------------------------------------------
(* FMOD_RESULT and the result mapper. *)

FailCodes == {"ERR_INVALID_HANDLE", "ERR_EVENT_NOTFOUND"}
Codes == {"OK", "ERR_TRUNCATED"} \cup FailCodes

NoResult == [tag |-> "None"]
Ok(v) == [tag |-> "Ok", value |-> v]
Err(e) == [tag |-> "Err", code |-> e]
Panic == [tag |-> "Panic"]

\* FMOD_RESULT::to_error: None for FMOD_OK, Some(code) otherwise.
to_error(code) == IF code = "OK" THEN "None" ELSE code

\* FMOD_RESULT::to_result: Ok(()) for FMOD_OK, Err(code) otherwise.
to_result(code) == IF code = "OK" THEN Ok("unit") ELSE Err(code)

\* debug_assert_eq!(a, b): panics when compiled in and the values differ.
debug_assert_eq(a, b) == debug_assertions => a = b

---------------------------------------------------------------------------
(* Two-phase string queries. *)

Bytes == {1, 2}     \* non-zero bytes of a text; 0 is the terminator

RECURSIVE SeqsUpTo(_, _)
SeqsUpTo(S, n) ==
    IF n = 0 THEN {<<>>}
    ELSE LET shorter == SeqsUpTo(S, n - 1)
         IN  shorter \cup {Append(s, x) : s \in shorter, x \in S}

Texts == SeqsUpTo(Bytes, MaxLen)

StringQueries ==
    {"Bank.get_path", "Bank.get_string_info", "System.lookup_path",
     "System.get_parameter_label_by_name", "System.get_parameter_label_by_id",
     "EventDescription.get_parameter_label_by_name",
     "EventDescription.get_parameter_label_by_id",
     "EventDescription.get_parameter_label_by_index",
     "EventDescription.get_path"}

\* vec![0u8; n]
Zeroes(n) == [i \in 1..n |-> 0]

\* What the engine writes into a buffer of `size` bytes for `text`: the text
\* cut to size - 1 bytes, then the terminator; nothing into a buffer of size 0.
NativeWrite(text, size) ==
    IF size = 0 THEN <<>>
    ELSE LET n == IF Len(text) < size - 1 THEN Len(text) ELSE size - 1
         IN  [i \in 1..size |-> IF i <= n THEN text[i] ELSE 0]

\* The outcomes of a native string getter (FMOD_Studio_Bank_GetPath, ...)
\* called with a buffer of `size` bytes: the engine fails the call, or it
\* writes the text, reports in `retrieved` the bytes the text needs with its
\* terminator, and returns FMOD_ERR_TRUNCATED when the buffer is too small.
NativeGetString(text, size) ==
    {[code |-> e, retrieved |-> 0, buf |-> Zeroes(size)] : e \in FailCodes}
    \cup
    {[code |-> IF Len(text) + 1 > size THEN "ERR_TRUNCATED" ELSE "OK",
      retrieved |-> Len(text) + 1,
      buf |-> NativeWrite(text, size)]}

SqIdle ==
    [pc |-> "idle", q |-> "none", string_len |-> 0, expected_string_len |-> 0,
     discCode |-> "none", fillCode |-> "none", fillCalls |-> 0,
     result |-> NoResult]

\* (variant: every error of the discovery call is returned, the truncation
\* code too)
StringQueryDiscoverPropagating(q) ==
    /\ sq.pc = "idle"
    /\ \E o \in NativeGetString(nativeText, 0) :
         sq' = [SqIdle EXCEPT
                  !.q = q, !.discCode = o.code, !.string_len = o.retrieved,
                  !.pc = IF to_error(o.code) # "None" THEN "done" ELSE "fill",
                  !.result = IF to_error(o.code) # "None"
                             THEN Err(o.code) ELSE NoResult]
    /\ UNCHANGED <<debug_assertions, buildVars, polyVars, nativeText, listVars, bankVars, geomVars, dspVars>>

\* The first half of a string query: the native call with a null buffer of
\* capacity 0, and the match on its error.
StringQueryDiscover(q) ==
    /\ sq.pc = "idle"
    /\ \E o \in NativeGetString(nativeText, 0) :
         LET error == to_error(o.code)
             returns == error # "None" /\ error # "ERR_TRUNCATED"
         IN  sq' = [SqIdle EXCEPT
                      !.q = q, !.discCode = o.code, !.string_len = o.retrieved,
                      !.pc = IF returns THEN "done" ELSE "fill",
                      !.result = IF returns THEN Err(error) ELSE NoResult]
    /\ UNCHANGED <<debug_assertions, buildVars, polyVars, nativeText, listVars, bankVars, geomVars, dspVars>>

\* (variant: the fill call's error is matched like the discovery call's, so
\* its truncation code is not returned)
StringQueryFillIgnoringTruncation ==
    /\ sq.pc = "fill"
    /\ \E o \in NativeGetString(nativeText, sq.string_len) :
         sq' = [sq EXCEPT
                  !.fillCode = o.code, !.fillCalls = @ + 1,
                  !.expected_string_len = o.retrieved,
                  !.pc = "done",
                  !.result =
                     IF o.code \in FailCodes THEN Err(o.code)
                     ELSE IF ~debug_assert_eq(sq.string_len, o.retrieved)
                          THEN Panic
                          ELSE Ok(o.buf)]
    /\ UNCHANGED <<debug_assertions, buildVars, polyVars, nativeText, listVars, bankVars, geomVars, dspVars>>

\* The second half: the buffer of string_len bytes, the native call that
\* fills it, the size assertion and the conversion of the buffer to a String.
StringQueryFill ==
    /\ sq.pc = "fill"
    /\ \E o \in NativeGetString(nativeText, sq.string_len) :
         sq' = [sq EXCEPT
                  !.fillCode = o.code, !.fillCalls = @ + 1,
                  !.expected_string_len = o.retrieved,
                  !.pc = "done",
                  !.result =
                     IF to_result(o.code).tag = "Err" THEN to_result(o.code)
                     ELSE IF ~debug_assert_eq(sq.string_len, o.retrieved)
                          THEN Panic
                          ELSE Ok(o.buf)]
    /\ UNCHANGED <<debug_assertions, buildVars, polyVars, nativeText, listVars, bankVars, geomVars, dspVars>>

\* The caller takes the result; the next query may start.
StringQueryReturn ==
    /\ sq.pc = "done"
    /\ sq' = SqIdle
    /\ UNCHANGED <<debug_assertions, buildVars, polyVars, nativeText, listVars, bankVars, geomVars, dspVars>>

\* The engine's text changes under a query (an unsynchronized mutation).
NativeTextChange ==
    /\ \E t \in Texts : t # nativeText /\ nativeText' = t
    /\ UNCHANGED <<debug_assertions, buildVars, polyVars, sq, listVars, bankVars, geomVars, dspVars>>

---------------------------------------------------------------------------
(* Two-phase list queries. *)

Kinds == {"bus", "event", "vca", "bank", "parameter", "instance"}

ListQueries ==
    {"Bank.get_bus_list", "Bank.get_event_list", "Bank.get_vca_list",
     "System.get_bank_list", "System.get_parameter_description_list",
     "EventDescription.get_instance_list"}

\* The kind of object the list call of a query writes.
ListKind(q) ==
    CASE q = "Bank.get_bus_list" -> "bus"
      [] q = "Bank.get_event_list" -> "event"
      [] q = "Bank.get_vca_list" -> "vca"
      [] q = "System.get_bank_list" -> "bank"
      [] q = "System.get_parameter_description_list" -> "parameter"
      [] q = "EventDescription.get_instance_list" -> "instance"

\* The kind of object the count call of a query counts: the query's own
\* kind, but get_vca_list calls self.event_count().
CountKind(q) ==
    CASE q = "Bank.get_bus_list" -> "bus"
      [] q = "Bank.get_event_list" -> "event"
      [] q = "Bank.get_vca_list" -> "event"
      [] q = "System.get_bank_list" -> "bank"
      [] q = "System.get_parameter_description_list" -> "parameter"
      [] q = "EventDescription.get_instance_list" -> "instance"

Handle(kind, id) == [kind |-> kind, id |-> id]
\* std::ptr::null_mut()
Null == Handle("null", 0)

\* The outcomes of a native count getter (FMOD_Studio_Bank_GetBusCount, ...).
NativeGetCount(kind) ==
    {[code |-> e, count |-> 0] : e \in FailCodes}
    \cup {[code |-> "OK", count |-> nativeCount[kind]]}

\* The outcomes of a native list getter (FMOD_Studio_Bank_GetBusList, ...)
\* called with `list` of `capacity` entries: the engine fails the call, or it
\* writes as many handles as fit and reports how many it wrote.
NativeGetList(kind, list, capacity) ==
    {[code |-> e, count |-> 0, list |-> list] : e \in FailCodes}
    \cup
    {LET n == IF nativeCount[kind] < capacity
              THEN nativeCount[kind] ELSE capacity
     IN  [code |-> "OK", count |-> n,
          list |-> [i \in 1..Len(list) |->
                      IF i <= n THEN Handle(kind, i) ELSE list[i]]]}

LqIdle ==
    [pc |-> "idle", q |-> "none", expected_count |-> 0, count |-> 0,
     changed |-> FALSE, result |-> NoResult]

\* The first half of a list query: let expected_count = self.x_count()?
ListQueryCount(q) ==
    /\ lq.pc = "idle"
    /\ \E o \in NativeGetCount(CountKind(q)) :
         lq' = [LqIdle EXCEPT
                  !.q = q, !.expected_count = o.count,
                  !.pc = IF to_result(o.code).tag = "Err"
                         THEN "done" ELSE "fill",
                  !.result = IF to_result(o.code).tag = "Err"
                             THEN to_result(o.code) ELSE NoResult]
    /\ UNCHANGED <<debug_assertions, buildVars, polyVars, nativeCount, stringVars, bankVars, geomVars, dspVars>>

\* The second half: the list of expected_count null handles, the native call
\* that fills it, the count assertion, and the list returned whole.
ListQueryFill ==
    /\ lq.pc = "fill"
    /\ \E o \in NativeGetList(ListKind(lq.q),
                              [i \in 1..lq.expected_count |-> Null],
                              lq.expected_count) :
         lq' = [lq EXCEPT
                  !.count = o.count,
                  !.pc = "done",
                  !.result =
                     IF to_result(o.code).tag = "Err" THEN to_result(o.code)
                     ELSE IF ~debug_assert_eq(o.count, lq.expected_count)
                          THEN Panic
                          ELSE Ok(o.list)]
    /\ UNCHANGED <<debug_assertions, buildVars, polyVars, nativeCount, stringVars, bankVars, geomVars, dspVars>>

\* The caller takes the result; the next query may start.
ListQueryReturn ==
    /\ lq.pc = "done"
    /\ lq' = LqIdle
    /\ UNCHANGED <<debug_assertions, buildVars, polyVars, nativeCount, stringVars, bankVars, geomVars, dspVars>>

\* The engine creates or destroys an object between the two calls of the
\* query in progress, which sees the collection change under it.  (A change
\* outside a query leads to a state some other run starts in.)
NativeCountChange(kind) ==
    /\ lq.pc = "fill"
    /\ kind \in {CountKind(lq.q), ListKind(lq.q)}
    /\ \E n \in 0..MaxCount :
         /\ n # nativeCount[kind]
         /\ nativeCount' = [nativeCount EXCEPT ![kind] = n]
    /\ lq' = [lq EXCEPT !.changed = TRUE]
    /\ UNCHANGED <<debug_assertions, buildVars, polyVars, stringVars, bankVars, geomVars, dspVars>>

---------------------------------------------------------------------------
(* The userdata table (crate::userdata): entries under the keys that the  *)
(* objects hold in their native userdata slot.                            *)

Keys == 1..MaxKeys
NullPtr == 0            \* std::ptr::null_mut()
\* no entry under a key
Absent == [data |-> "none", owner |-> "none"]

\* An entry of the table: the data and the object it was inserted for.
Entry(userdata, owner) == [data |-> userdata, owner |-> owner]

\* userdata::insert_userdata(userdata, owner): a new entry under a key that
\* holds none.
insert_userdata(key, userdata, owner) ==
    [table EXCEPT ![key] = Entry(userdata, owner)]
\* (variant: a key is handed out whether or not it holds an entry)
AnyKey == CHOOSE k \in Keys : \A j \in Keys : k <= j
NewKey == CHOOSE k \in Keys : table[k] = Absent /\ \A j \in Keys : j < k => table[j] # Absent

\* userdata::set_userdata: the data of an entry that is present.
set_userdata_in_table(key, userdata) ==
    IF table[key] # Absent
    THEN [table EXCEPT ![key] = Entry(userdata, table[key].owner)]
    ELSE table

\* userdata::remove_userdata: the entry is gone.
remove_userdata(key) == [table EXCEPT ![key] = Absent]

---------------------------------------------------------------------------
(* Bank loading: the engine's bank and the wrappers that load, poll and   *)
(* unload it.                                                             *)

LoadFailCodes == {"ERR_FILE_NOTFOUND", "ERR_FORMAT"}
LoadBankFlags == {"NORMAL", "NONBLOCKING"}

\* No bank: no handle handed out, nothing loaded, no sample data requested.
NoBank ==
    [handed |-> FALSE, exists |-> FALSE, loadedBy |-> "none",
     flags |-> "none", state |-> "Unloaded", error |-> "None",
     sampleState |-> "Unloaded", sampleRequests |-> 0,
     sampleRequested |-> FALSE, slot |-> NullPtr, id |-> 0]

\* The Studio System as built: alive, no bank handle issued yet.
\* `unloaded` holds the banks whose unload has completed, `others` counts
\* the banks that were loaded before and stay loaded.
NewStudio == [alive |-> TRUE, loads |-> 0, unloaded |-> {}, others |-> 0]

\* The value of a bool-returning wrapper (FMOD_BOOL::into).
Bool(b) == [tag |-> "Bool", value |-> b]

NoCall ==
    [op |-> "none", flags |-> "none", arg |-> 0, result |-> NoResult,
     seen |-> NoBank, sys |-> NewStudio, balance |-> 0]

\* A LoadingState as the wrapper returns it; Error carries the code.
LoadingState(state, code) == [state |-> state, code |-> code]

\* LoadingState::try_from_ffi(loading_state, error): the Error state carries
\* the failure code; with any other state a native error is the result.
try_from_ffi(loading_state, error) ==
    IF loading_state = "Error"
    THEN IF error # "None"
         THEN Ok(LoadingState("Error", error))
         ELSE Err("ERR_INVALID_PARAM")
    ELSE IF error # "None"
         THEN Err(error)
         ELSE Ok(LoadingState(loading_state, "None"))

\* FMOD_Studio_System_LoadBankFile / FMOD_Studio_System_LoadBankMemory: a
\* blocking load ends loaded, or fails with the error and no bank; a
\* NONBLOCKING load always returns FMOD_OK and a bank that is loading.
\* Every bank loaded gets a handle of its own.
NativeLoadBank(fn, flags) ==
    LET id == studio.loads + 1 IN
    IF flags = "NONBLOCKING"
    THEN {[code |-> "OK", handle |-> Handle("bank", id),
           bank |-> [NoBank EXCEPT !.handed = TRUE, !.exists = TRUE,
                                   !.loadedBy = fn, !.flags = flags,
                                   !.state = "Loading", !.id = id]]}
    ELSE {[code |-> "OK", handle |-> Handle("bank", id),
           bank |-> [NoBank EXCEPT !.handed = TRUE, !.exists = TRUE,
                                   !.loadedBy = fn, !.flags = flags,
                                   !.state = "Loaded", !.id = id]]}
         \cup {[code |-> e, handle |-> Null, bank |-> bank] : e \in LoadFailCodes}

\* FMOD_Studio_Bank_GetLoadingState: the state of the bank's metadata; when
\* the load failed, the state is Error and the return code is the error of
\* the load; on a stale handle, Unloaded and FMOD_ERR_INVALID_HANDLE.
FMOD_Studio_Bank_GetLoadingState ==
    IF ~bank.exists
    THEN [code |-> "ERR_INVALID_HANDLE", state |-> "Unloaded"]
    ELSE IF bank.state = "Error"
         THEN [code |-> bank.error, state |-> "Error"]
         ELSE [code |-> "OK", state |-> bank.state]

\* FMOD_Studio_Bank_GetSampleLoadingState: the state of the bank's sample
\* data, which is Unloaded until load_sample_data is called.
FMOD_Studio_Bank_GetSampleLoadingState ==
    IF ~bank.exists
    THEN [code |-> "ERR_INVALID_HANDLE", state |-> "Unloaded"]
    ELSE [code |-> "OK", state |-> bank.sampleState]

\* What the caller has after a call: the call, its result, the bank it was
\* made on, and the caller's own book of the sample data requests of the
\* bank: load_sample_data calls that returned Ok less unload_sample_data
\* calls that returned Ok.
ReturnedOn(op, flags, arg, result) ==
    last' = [op |-> op, flags |-> flags, arg |-> arg, result |-> result,
             seen |-> bank, sys |-> studio,
             balance |->
                IF op \in {"load_bank_file", "load_bank_memory", "load_bank_pointer"}
                THEN 0
                ELSE IF op = "load_sample_data" /\ result.tag = "Ok"
                THEN last.balance + 1
                ELSE IF op = "unload_sample_data" /\ result.tag = "Ok"
                THEN last.balance - 1
                ELSE last.balance]

Returned(op, flags, result) == ReturnedOn(op, flags, 0, result)

\* The wrapper around a native load: to_result()? and Ok(Bank::from_ffi(bank)).
LoadBank(fn, callerFlags, nativeFlags) ==
    /\ studio.alive /\ studio.loads < MaxLoads
    /\ ~bank.exists
    /\ \E o \in NativeLoadBank(fn, nativeFlags) :
         /\ bank' = o.bank
         /\ studio' = IF o.code = "OK" THEN [studio EXCEPT !.loads = @ + 1]
                      ELSE studio
         /\ Returned(fn, callerFlags,
                     IF to_result(o.code).tag = "Err" THEN to_result(o.code)
                     ELSE Ok(o.handle))
         /\ buffer' = IF fn = "load_bank_pointer" /\ o.code = "OK"
                      THEN "held" ELSE "none"
    /\ UNCHANGED <<debug_assertions, buildVars, polyVars, stringVars, listVars, geomVars, dspVars, events>>

\* (variant: the load flags are not passed on; every load blocks)
load_bank_file_blocking(load_flags) ==
    LoadBank("load_bank_file", load_flags, "NORMAL")

load_bank_file(load_flags) ==
    LoadBank("load_bank_file", load_flags, load_flags)

load_bank_memory(flags) ==
    LoadBank("load_bank_memory", flags, flags)

load_bank_pointer(flags) ==
    LoadBank("load_bank_pointer", flags, flags)

\* The engine finishes a NONBLOCKING load.
NativeLoadFinish ==
    /\ bank.exists /\ bank.state = "Loading"
    /\ bank' = [bank EXCEPT !.state = "Loaded"]
    /\ UNCHANGED <<debug_assertions, buildVars, polyVars, last, stringVars, listVars, geomVars, dspVars, studioVars>>

\* The engine fails a NONBLOCKING load.
NativeLoadFail(e) ==
    /\ bank.exists /\ bank.state = "Loading"
    /\ bank' = [bank EXCEPT !.state = "Error", !.error = e]
    /\ UNCHANGED <<debug_assertions, buildVars, polyVars, last, stringVars, listVars, geomVars, dspVars, studioVars>>

\* (variant: the native error is dropped before the conversion)
get_loading_state_without_error ==
    /\ bank.handed
    /\ LET r == FMOD_Studio_Bank_GetLoadingState
       IN  Returned("get_loading_state", "none", try_from_ffi(r.state, "None"))
    /\ UNCHANGED <<debug_assertions, buildVars, polyVars, bank, stringVars, listVars, geomVars, dspVars, studioVars>>

\* (variant: the state of the sample data is polled)
get_loading_state_of_samples ==
    /\ bank.handed
    /\ LET r == FMOD_Studio_Bank_GetSampleLoadingState
       IN  Returned("get_loading_state", "none",
                    try_from_ffi(r.state, to_error(r.code)))
    /\ UNCHANGED <<debug_assertions, buildVars, polyVars, bank, stringVars, listVars, geomVars, dspVars, studioVars>>

\* (variant: the poll completes the load it finds in progress)
get_loading_state_completing ==
    /\ bank.handed
    /\ LET r == FMOD_Studio_Bank_GetLoadingState
       IN  Returned("get_loading_state", "none",
                    try_from_ffi(r.state, to_error(r.code)))
    /\ bank' = IF bank.exists /\ bank.state = "Loading"
               THEN [bank EXCEPT !.state = "Loaded"] ELSE bank
    /\ UNCHANGED <<debug_assertions, buildVars, polyVars, stringVars, listVars, geomVars, dspVars, studioVars>>

\* Bank::get_loading_state.
get_loading_state ==
    /\ bank.handed
    /\ LET r == FMOD_Studio_Bank_GetLoadingState
       IN  Returned("get_loading_state", "none",
                    try_from_ffi(r.state, to_error(r.code)))
    /\ UNCHANGED <<debug_assertions, buildVars, polyVars, bank, stringVars, listVars, geomVars, dspVars, studioVars>>

\* Bank::get_sample_loading_state, which calls
\* FMOD_Studio_Bank_GetLoadingState.
get_sample_loading_state ==
    /\ bank.handed
    /\ LET r == FMOD_Studio_Bank_GetLoadingState
       IN  Returned("get_sample_loading_state", "none",
                    try_from_ffi(r.state, to_error(r.code)))
    /\ UNCHANGED <<debug_assertions, buildVars, polyVars, bank, stringVars, listVars, geomVars, dspVars, studioVars>>

\* (variant: a second load request is answered Ok without the native call)
load_sample_data_once ==
    /\ bank.handed
    /\ bank.sampleRequests < MaxRequests
    /\ last.balance < MaxRequests
    /\ LET code == IF ~bank.exists THEN "ERR_INVALID_HANDLE"
                   ELSE IF bank.state # "Loaded" THEN "ERR_STUDIO_NOT_LOADED"
                   ELSE "OK"
       IN  /\ bank' = IF code # "OK" \/ bank.sampleRequests > 0 THEN bank
                      ELSE [bank EXCEPT
                              !.sampleRequests = @ + 1,
                              !.sampleRequested = TRUE,
                              !.sampleState = IF @ = "Loaded"
                                              THEN "Loaded" ELSE "Loading"]
           /\ Returned("load_sample_data", "none", to_result(code))
    /\ UNCHANGED <<debug_assertions, buildVars, polyVars, stringVars, listVars, geomVars, dspVars, studioVars>>

\* Bank::load_sample_data: FMOD_Studio_Bank_LoadSampleData counts the request
\* and starts loading the sample data of a loaded bank.
load_sample_data ==
    /\ bank.handed
    /\ bank.sampleRequests < MaxRequests
    /\ LET code == IF ~bank.exists THEN "ERR_INVALID_HANDLE"
                   ELSE IF bank.state # "Loaded" THEN "ERR_STUDIO_NOT_LOADED"
                   ELSE "OK"
       IN  /\ bank' = IF code # "OK" THEN bank
                      ELSE [bank EXCEPT
                              !.sampleRequests = @ + 1,
                              !.sampleRequested = TRUE,
                              !.sampleState = IF @ = "Loaded"
                                              THEN "Loaded" ELSE "Loading"]
           /\ Returned("load_sample_data", "none", to_result(code))
    /\ UNCHANGED <<debug_assertions, buildVars, polyVars, stringVars, listVars, geomVars, dspVars, studioVars>>

\* Bank::unload_sample_data: FMOD_Studio_Bank_UnloadSampleData takes back one
\* request; the sample data is unloaded with the last one.
unload_sample_data ==
    /\ bank.handed
    /\ LET code == IF ~bank.exists THEN "ERR_INVALID_HANDLE"
                   ELSE IF bank.state # "Loaded" THEN "ERR_STUDIO_NOT_LOADED"
                   ELSE IF bank.sampleRequests = 0 THEN "ERR_INVALID_PARAM"
                   ELSE "OK"
       IN  /\ bank' = IF code # "OK" THEN bank
                      ELSE [bank EXCEPT
                              !.sampleRequests = @ - 1,
                              !.sampleState = IF bank.sampleRequests = 1
                                              THEN "Unloading" ELSE @]
           /\ Returned("unload_sample_data", "none", to_result(code))
    /\ UNCHANGED <<debug_assertions, buildVars, polyVars, stringVars, listVars, geomVars, dspVars, studioVars>>

\* The engine finishes loading or unloading the sample data.
NativeSampleLoadingFinish ==
    /\ bank.exists /\ bank.sampleState \in {"Loading", "Unloading"}
    /\ bank' = [bank EXCEPT
                  !.sampleState = IF @ = "Loading" THEN "Loaded" ELSE "Unloaded"]
    /\ UNCHANGED <<debug_assertions, buildVars, polyVars, last, stringVars, listVars, geomVars, dspVars, studioVars>>

\* (variant: the association is removed by unload itself)
unload_removing_userdata ==
    /\ bank.handed
    /\ LET code == IF ~bank.exists THEN "ERR_INVALID_HANDLE" ELSE "OK"
       IN  /\ bank' = IF code # "OK" THEN bank
                      ELSE [bank EXCEPT !.state = "Unloading"]
           /\ table' = IF code = "OK" /\ bank.slot # NullPtr
                       THEN remove_userdata(bank.slot) ELSE table
           /\ Returned("unload", "none", to_result(code))
    /\ UNCHANGED <<debug_assertions, buildVars, polyVars, stringVars, listVars, geoms, th, given, dspVars, studioVars>>

\* Bank::set_userdata: the association of the bank, as Geometry::set_userdata
\* makes it: insert_userdata and the key into the bank's slot, or
\* set_userdata under the key the slot holds.
Bank_set_userdata(userdata) ==
    /\ bank.handed
    /\ IF ~bank.exists
       THEN /\ UNCHANGED <<bank, table>>
            /\ Returned("set_userdata", "none", Err("ERR_INVALID_HANDLE"))
       ELSE IF bank.slot = NullPtr
       THEN /\ \E k \in Keys : table[k] = Absent
            /\ table' = insert_userdata(NewKey, userdata, "bank")
            /\ bank' = [bank EXCEPT !.slot = NewKey]
            /\ Returned("set_userdata", "none", Ok("unit"))
       ELSE /\ table' = set_userdata_in_table(bank.slot, userdata)
            /\ UNCHANGED bank
            /\ Returned("set_userdata", "none", Ok("unit"))
    /\ UNCHANGED <<debug_assertions, buildVars, polyVars, stringVars, listVars, geoms, th, given, dspVars, studioVars>>

\* (variant: a bank with outstanding sample data requests is not unloaded)
unload_refusing_requests ==
    /\ bank.handed
    /\ LET code == IF ~bank.exists THEN "ERR_INVALID_HANDLE"
                   ELSE IF bank.sampleRequests > 0 THEN "ERR_INVALID_PARAM"
                   ELSE "OK"
       IN  /\ bank' = IF code # "OK" THEN bank
                      ELSE [bank EXCEPT !.state = "Unloading"]
           /\ Returned("unload", "none", to_result(code))
    /\ UNCHANGED <<debug_assertions, buildVars, polyVars, stringVars, listVars, geomVars, dspVars, studioVars>>

\* (variant: an unload that fails leaves the bank in the Error state)
unload_failing_to_error ==
    /\ bank.handed
    /\ LET code == IF ~bank.exists THEN "ERR_INVALID_HANDLE" ELSE "OK"
       IN  /\ bank' = IF code # "OK" THEN [bank EXCEPT !.state = "Error"]
                      ELSE [bank EXCEPT !.state = "Unloading"]
           /\ Returned("unload", "none", to_result(code))
    /\ UNCHANGED <<debug_assertions, buildVars, polyVars, stringVars, listVars, geomVars, dspVars, studioVars>>

\* Bank::unload: FMOD_Studio_Bank_Unload starts the unload of the bank; the
\* userdata is not deallocated here.
unload ==
    /\ bank.handed
    /\ LET code == IF ~bank.exists THEN "ERR_INVALID_HANDLE" ELSE "OK"
       IN  /\ bank' = IF code # "OK" THEN bank
                      ELSE [bank EXCEPT !.state = "Unloading"]
           /\ Returned("unload", "none", to_result(code))
    /\ UNCHANGED <<debug_assertions, buildVars, polyVars, stringVars, listVars, geomVars, dspVars, studioVars>>

\* The engine finishes the unload: the bank and its sample data are gone,
\* its handles are stale, and the system callback
\* (FMOD_STUDIO_SYSTEM_CALLBACK_BANK_UNLOAD) deallocates its userdata.
NativeUnloadFinish ==
    /\ bank.exists /\ bank.state = "Unloading"
    /\ bank' = [NoBank EXCEPT !.handed = TRUE, !.id = bank.id]
    /\ studio' = [studio EXCEPT !.unloaded = @ \cup {bank.id}]
    /\ table' = IF bank.slot # NullPtr THEN remove_userdata(bank.slot) ELSE table
    /\ UNCHANGED <<debug_assertions, buildVars, polyVars, last, stringVars, listVars, geoms, th, given, dspVars, events, buffer>>

\* The engine reads the memory behind a bank loaded by load_bank_pointer for
\* as long as the bank exists: through the load, while it is loaded and
\* after Bank::unload has returned, until the unload has completed.
EngineReadsBuffer == bank.exists /\ bank.loadedBy = "load_bank_pointer"

\* What Bank::get_loading_state returns once the unload has completed: the
\* handle is stale (the engine reports Unloaded and FMOD_ERR_INVALID_HANDLE).
ShowsUnloadCompleted(result) ==
    \/ result = Err("ERR_INVALID_HANDLE")
    \/ result.tag = "Ok" /\ result.value.state = "Unloaded"

\* The caller frees the memory.
Free ==
    /\ buffer = "held"
    /\ buffer' = "freed"
    /\ UNCHANGED <<debug_assertions, buildVars, polyVars, bank, last, studio, events, stringVars, listVars, geomVars, dspVars>>

\* (variant: the caller frees the memory as soon as Bank::unload has returned)
free_after_unload ==
    /\ last.op = "unload" /\ last.result.tag = "Ok"
    /\ Free

\* The caller frees the memory when Bank::get_loading_state has shown that
\* the unload completed.
free_after_get_loading_state ==
    /\ last.op = "get_loading_state" /\ ShowsUnloadCompleted(last.result)
    /\ Free

\* The caller frees the memory when the system callback
\* (FMOD_STUDIO_SYSTEM_CALLBACK_BANK_UNLOAD) has run for the bank.
free_after_callback ==
    /\ studio.loads \in studio.unloaded
    /\ Free

\* Bank::get_event_list, with no change of the bank between its two native
\* calls: the caller holds an EventDescription of a loaded bank.
Bank_get_event_list ==
    /\ bank.handed
    /\ LET code == IF ~bank.exists THEN "ERR_INVALID_HANDLE"
                   ELSE IF bank.state # "Loaded" THEN "ERR_STUDIO_NOT_LOADED"
                   ELSE "OK"
       IN  /\ events' = IF code = "OK" THEN events \cup {bank.id} ELSE events
           /\ ReturnedOn("get_event_list", "none", bank.id,
                         IF code = "OK" THEN Ok(<<Handle("event", bank.id)>>)
                         ELSE Err(code))
    /\ UNCHANGED <<debug_assertions, buildVars, polyVars, bank, studio, buffer, stringVars, listVars, geomVars, dspVars>>

\* The handles of the banks that stay loaded.
OtherBanks == [i \in 1..studio.others |-> Handle("bank", MaxLoads + i)]

\* Whether the engine counts and lists the bank: a loaded bank is, a bank
\* that does not exist is not, and for a bank on its way in or out (or
\* failed) either answer is possible.
NativeBankListed ==
    IF ~bank.exists THEN {FALSE}
    ELSE IF bank.state = "Loaded" THEN {TRUE}
    ELSE BOOLEAN

\* The banks of the System as the engine lists them.
NativeBanks(listed) ==
    IF listed THEN Append(OtherBanks, Handle("bank", bank.id)) ELSE OtherBanks

\* FMOD_Studio_System_GetBankList: writes at most `capacity` handles into
\* the array and reports how many it wrote.
FMOD_Studio_System_GetBankList(list, capacity, listed) ==
    LET banks == NativeBanks(listed)
        n == IF Len(banks) < capacity THEN Len(banks) ELSE capacity
    IN  [count |-> n,
         list  |-> [i \in 1..Len(list) |-> IF i <= n THEN banks[i] ELSE list[i]]]

\* System::bank_count: FMOD_Studio_System_GetBankCount.
bank_count ==
    /\ studio.alive
    /\ \E listed \in NativeBankListed :
         ReturnedOn("bank_count", "none", 0, Ok(Len(NativeBanks(listed))))
    /\ UNCHANGED <<debug_assertions, buildVars, polyVars, bank, stringVars, listVars, geomVars, dspVars, studioVars>>

\* (variant: the array is one handle short of the count)
get_bank_list_one_short ==
    /\ studio.alive
    /\ \E l1 \in NativeBankListed, l2 \in NativeBankListed :
         LET expected_count == Len(NativeBanks(l1))
             short == IF expected_count > 0 THEN expected_count - 1 ELSE 0
             list == [i \in 1..short |-> Null]
             o == FMOD_Studio_System_GetBankList(list, short, l2)
         IN  ReturnedOn("get_bank_list", "none", 0, Ok(o.list))
    /\ UNCHANGED <<debug_assertions, buildVars, polyVars, bank, stringVars, listVars, geomVars, dspVars, studioVars>>

\* System::get_bank_list: bank_count, an array of that many null pointers,
\* FMOD_Studio_System_GetBankList, the assertion on the two counts and the
\* array as the list. The engine may finish or start on a bank between the
\* two native calls.
get_bank_list ==
    /\ studio.alive
    /\ \E l1 \in NativeBankListed, l2 \in NativeBankListed :
         LET expected_count == Len(NativeBanks(l1))
             list == [i \in 1..expected_count |-> Null]
             o == FMOD_Studio_System_GetBankList(list, expected_count, l2)
         IN  ReturnedOn("get_bank_list", "none", 0,
                        IF debug_assert_eq(o.count, expected_count)
                        THEN Ok(o.list) ELSE Panic)
    /\ UNCHANGED <<debug_assertions, buildVars, polyVars, bank, stringVars, listVars, geomVars, dspVars, studioVars>>

\* FMOD_Studio_Bank_IsValid, FMOD_Studio_EventDescription_IsValid and
\* FMOD_Studio_System_IsValid. While the Studio System is alive the engine
\* resolves the handle: a bank handle is valid while its bank exists, an
\* event description while its bank does (the objects created from a bank
\* are destroyed by its unload, at the latest when it completes). On a
\* released System every handle is stale, the engine's protection against
\* stale handles is not guaranteed and the call may answer either way.
NativeIsValid(kind, id) ==
    IF ~studio.alive THEN BOOLEAN
    ELSE IF kind = "system" THEN {TRUE}
    ELSE IF ~(bank.exists /\ bank.id = id) THEN {FALSE}
    ELSE IF kind = "bank" THEN {TRUE}
    ELSE IF bank.state = "Unloading" THEN BOOLEAN
    ELSE {TRUE}

\* (variant: a handle is valid when its pointer is not null)
Bank_is_valid_not_null(id) ==
    /\ id \in 1..studio.loads
    /\ ReturnedOn("Bank::is_valid", "none", id, Bool(Handle("bank", id) # Null))
    /\ UNCHANGED <<debug_assertions, buildVars, polyVars, bank, stringVars, listVars, geomVars, dspVars, studioVars>>

\* Bank::is_valid, on any bank handle the caller was given.
Bank_is_valid(id) ==
    /\ id \in 1..studio.loads
    /\ \E b \in NativeIsValid("bank", id) :
         ReturnedOn("Bank::is_valid", "none", id, Bool(b))
    /\ UNCHANGED <<debug_assertions, buildVars, polyVars, bank, stringVars, listVars, geomVars, dspVars, studioVars>>

\* EventDescription::is_valid, on any event description the caller holds.
EventDescription_is_valid(id) ==
    /\ id \in events
    /\ \E b \in NativeIsValid("event", id) :
         ReturnedOn("EventDescription::is_valid", "none", id, Bool(b))
    /\ UNCHANGED <<debug_assertions, buildVars, polyVars, bank, stringVars, listVars, geomVars, dspVars, studioVars>>

\* System::is_valid.
System_is_valid ==
    /\ \E b \in NativeIsValid("system", 0) :
         ReturnedOn("System::is_valid", "none", 0, Bool(b))
    /\ UNCHANGED <<debug_assertions, buildVars, polyVars, bank, stringVars, listVars, geomVars, dspVars, studioVars>>

\* FMOD_Studio_EventDescription_GetSampleLoadingState: the state of the
\* sample data of the event, which its bank's load_sample_data loads; on an
\* event that is invalid, Unloaded and FMOD_ERR_INVALID_HANDLE.
FMOD_Studio_EventDescription_GetSampleLoadingState(valid) ==
    IF valid THEN [code |-> "OK", state |-> bank.sampleState]
    ELSE [code |-> "ERR_INVALID_HANDLE", state |-> "Unloaded"]

\* EventDescription::get_sample_loading_state, on any event description the
\* caller holds.
EventDescription_get_sample_loading_state(id) ==
    /\ id \in events
    /\ \E valid \in NativeIsValid("event", id) :
         LET r == FMOD_Studio_EventDescription_GetSampleLoadingState(valid)
         IN  ReturnedOn("EventDescription::get_sample_loading_state", "none", id,
                        try_from_ffi(r.state, to_error(r.code)))
    /\ UNCHANGED <<debug_assertions, buildVars, polyVars, bank, stringVars, listVars, geomVars, dspVars, studioVars>>

ReleaseFailCodes == {"ERR_INTERNAL"}

\* FMOD_Studio_System_Release: frees the Studio System and everything
\* created under it, or fails and frees nothing. Whether the unload callback
\* of a bank freed this way runs is left open.
FMOD_Studio_System_Release ==
    {[code |-> "OK", studio |-> [studio EXCEPT !.alive = FALSE],
      bank |-> [NoBank EXCEPT !.id = bank.id], table |-> t] :
        t \in {table} \cup (IF bank.exists /\ bank.slot # NullPtr
                             THEN {remove_userdata(bank.slot)} ELSE {})}
    \cup {[code |-> e, studio |-> studio, bank |-> bank, table |-> table] :
            e \in ReleaseFailCodes}

\* (variant: the banks outlive the System)
System_release_keeping_banks ==
    /\ studio.alive
    /\ \E o \in FMOD_Studio_System_Release :
         /\ studio' = o.studio
         /\ UNCHANGED <<bank, table>>
         /\ ReturnedOn("System::release", "none", 0, to_result(o.code))
    /\ UNCHANGED <<debug_assertions, buildVars, polyVars, stringVars, listVars, geoms, th, given, dspVars, events, buffer>>

\* System::release: FMOD_Studio_System_Release(self.inner).to_result(). Its
\* safety contract makes every handle of the System stale once it succeeds:
\* of the calls on them only the validity queries are followed further.
System_release ==
    /\ studio.alive
    /\ \E o \in FMOD_Studio_System_Release :
         /\ studio' = o.studio
         /\ bank' = o.bank
         /\ table' = o.table
         /\ ReturnedOn("System::release", "none", 0, to_result(o.code))
    /\ UNCHANGED <<debug_assertions, buildVars, polyVars, stringVars, listVars, geoms, th, given, dspVars, events, buffer>>

---------------------------------------------------------------------------
(* Geometry and its userdata association (feature userdata-abstraction).  *)
(* A call is a sequence of native calls and table operations; the calls   *)
(* of two threads interleave between them.                                *)

Threads == {"t1", "t2"}
Geoms == {"g1", "g2"}
Data == {"d1", "d2"}
\* Each thread associates a datum of its own, which tells the writers apart.
DataOf(t) == IF t = "t1" THEN "d1" ELSE "d2"
ThIdle ==
    [pc |-> "idle", op |-> "none", g |-> "none", data |-> "none",
     userdata |-> NullPtr, removed |-> FALSE, steps |-> <<>>,
     result |-> NoResult]

\* A Geometry as created: alive, its userdata slot null. `releases` keeps
\* its history: the number of native releases that succeeded on it (1 is a
\* release, 2 stands for any number of releases of a released Geometry).
NewGeometry == [alive |-> TRUE, slot |-> NullPtr, releases |-> 0]

\* The geometry after a native release that succeeded.
Released(geom) ==
    [geom EXCEPT !.alive = FALSE, !.releases = IF @ < 2 THEN @ + 1 ELSE @]

\* A native call on a Geometry that was released uses freed memory: it may
\* be refused with FMOD_ERR_INVALID_HANDLE or go through.
UseCodes(g) == IF geoms[g].alive THEN {"OK"} ELSE {"OK", "ERR_INVALID_HANDLE"}

\* FMOD_Geometry_Release may fail on a live Geometry too.
ReleaseCodes(g) ==
    IF geoms[g].alive THEN {"OK", "ERR_INTERNAL"} ELSE {"OK", "ERR_INVALID_HANDLE"}

\* The next position of a thread's call; a call that is done keeps what it
\* returns and forgets its locals.
Step(t, rec) ==
    th' = [th EXCEPT ![t] = IF rec.pc = "done"
                            THEN [rec EXCEPT !.data = "none", !.userdata = NullPtr]
                            ELSE rec]

\* A call that is done returns before any thread takes its next step: the
\* return changes nothing the other threads see.
NoneReturning == \A u \in Threads : th[u].pc # "done"

\* The callers use a Geometry until a release of it has returned: a call
\* starts on a live Geometry, or on one whose release is still in progress.
InUse(g) ==
    \/ geoms[g].alive
    \/ \E u \in Threads : th[u].op = "release" /\ th[u].g = g /\ th[u].pc # "done"

\* A thread calls Geometry::release or Geometry::set_userdata; the call's
\* first statement is self.get_raw_userdata()?.
Call(t, op, g, d) ==
    /\ NoneReturning
    /\ th[t].pc = "idle"
    /\ InUse(g)
    /\ \E code \in UseCodes(g) :
         Step(t, [ThIdle EXCEPT
                    !.op = op, !.g = g,
                    !.data = IF code = "OK" THEN d ELSE "none",
                    !.userdata = IF code = "OK" THEN geoms[g].slot ELSE NullPtr,
                    !.pc = IF code = "OK" THEN op ELSE "done",
                    !.steps = IF code = "OK" /\ op = "release"
                              THEN <<"get_raw_userdata">> ELSE <<>>,
                    !.result = IF code = "OK" THEN NoResult ELSE Err(code)])
    /\ UNCHANGED <<debug_assertions, buildVars, polyVars, geoms, table, stringVars, listVars, bankVars, dspVars>>

release_get_raw_userdata(t, g) == Call(t, "release", g, "none")

set_userdata_get_raw_userdata(t, g, userdata) == Call(t, "set_userdata", g, userdata)

\* (variant: the result of the native release is not checked; the removal
\* follows a release that failed)
release_native_unchecked(t) ==
    /\ NoneReturning
    /\ th[t].pc = "release"
    /\ \E code \in ReleaseCodes(th[t].g) :
         /\ geoms' = IF code = "OK"
                     THEN [geoms EXCEPT ![th[t].g] = Released(@)]
                     ELSE geoms
         /\ Step(t, [th[t] EXCEPT
                       !.pc = IF th[t].userdata # NullPtr THEN "remove"
                              ELSE "done",
                       !.steps = IF code = "OK"
                                 THEN Append(@, "FMOD_Geometry_Release") ELSE @,
                       !.result = IF th[t].userdata = NullPtr
                                  THEN Ok("unit") ELSE NoResult])
    /\ UNCHANGED <<debug_assertions, buildVars, polyVars, table, stringVars, listVars, bankVars, dspVars>>

\* Geometry::release: FMOD_Geometry_Release(self.inner).to_result()?
release_native(t) ==
    /\ NoneReturning
    /\ th[t].pc = "release"
    /\ \E code \in ReleaseCodes(th[t].g) :
         /\ geoms' = IF code = "OK"
                     THEN [geoms EXCEPT ![th[t].g] = Released(@)]
                     ELSE geoms
         /\ Step(t, [th[t] EXCEPT
                       !.pc = IF code # "OK" THEN "done"
                              ELSE IF th[t].userdata # NullPtr THEN "remove"
                              ELSE "done",
                       !.steps = IF code = "OK"
                                 THEN Append(@, "FMOD_Geometry_Release") ELSE @,
                       !.result = IF code # "OK" \/ th[t].userdata = NullPtr
                                  THEN to_result(code) ELSE NoResult])
    /\ UNCHANGED <<debug_assertions, buildVars, polyVars, table, stringVars, listVars, bankVars, dspVars>>

\* Geometry::release: remove_userdata(userdata.into())
release_remove_userdata(t) ==
    /\ NoneReturning
    /\ th[t].pc = "remove"
    /\ table' = remove_userdata(th[t].userdata)
    /\ Step(t, [th[t] EXCEPT
                  !.pc = "clear",
                  !.steps = Append(@, "remove_userdata"),
                  !.removed = table[th[t].userdata] # Absent])
    /\ UNCHANGED <<debug_assertions, buildVars, polyVars, geoms, stringVars, listVars, bankVars, dspVars>>

\* Geometry::release: self.set_raw_userdata(std::ptr::null_mut())?; Ok(())
release_set_raw_userdata(t) ==
    /\ NoneReturning
    /\ th[t].pc = "clear"
    /\ \E code \in UseCodes(th[t].g) :
         /\ geoms' = IF code = "OK"
                     THEN [geoms EXCEPT ![th[t].g].slot = NullPtr]
                     ELSE geoms
         /\ Step(t, [th[t] EXCEPT
                       !.pc = "done",
                       !.steps = IF code = "OK"
                                 THEN Append(@, "set_raw_userdata") ELSE @,
                       !.result = to_result(code)])
    /\ UNCHANGED <<debug_assertions, buildVars, polyVars, table, stringVars, listVars, bankVars, dspVars>>

\* (variant: the new key goes to the slot while it is not in the table)
set_userdata_table_slot_first(t) ==
    /\ NoneReturning
    /\ th[t].pc = "set_userdata"
    /\ IF th[t].userdata = NullPtr
       THEN /\ \E k \in Keys : table[k] = Absent
            /\ UNCHANGED table
            /\ geoms' = [geoms EXCEPT ![th[t].g].slot = NewKey]
            /\ Step(t, [th[t] EXCEPT !.pc = "write", !.userdata = NewKey])
       ELSE /\ table' = set_userdata_in_table(th[t].userdata, th[t].data)
            /\ UNCHANGED geoms
            /\ Step(t, [th[t] EXCEPT !.pc = "done", !.result = Ok("unit")])
    /\ UNCHANGED <<debug_assertions, buildVars, polyVars, stringVars, listVars, bankVars, dspVars>>

\* (variant: on a Geometry that has an association the new data is dropped)
set_userdata_table_insert_only(t) ==
    /\ NoneReturning
    /\ th[t].pc = "set_userdata"
    /\ IF th[t].userdata = NullPtr
       THEN /\ \E k \in Keys : table[k] = Absent
            /\ table' = insert_userdata(NewKey, th[t].data, th[t].g)
            /\ UNCHANGED geoms
            /\ Step(t, [th[t] EXCEPT !.pc = "write", !.userdata = NewKey])
       ELSE /\ UNCHANGED table
            /\ UNCHANGED geoms
            /\ Step(t, [th[t] EXCEPT !.pc = "done", !.result = Ok("unit")])
    /\ UNCHANGED <<debug_assertions, buildVars, polyVars, stringVars, listVars, bankVars, dspVars>>

\* Geometry::set_userdata: the branch on the pointer, with insert_userdata
\* for a null pointer and set_userdata for any other (after which the call
\* returns Ok).
set_userdata_table(t) ==
    /\ NoneReturning
    /\ th[t].pc = "set_userdata"
    /\ IF th[t].userdata = NullPtr
       THEN /\ \E k \in Keys : table[k] = Absent
            /\ table' = insert_userdata(NewKey, th[t].data, th[t].g)
            /\ UNCHANGED geoms
            /\ Step(t, [th[t] EXCEPT !.pc = "write", !.userdata = NewKey])
       ELSE /\ table' = set_userdata_in_table(th[t].userdata, th[t].data)
            /\ UNCHANGED geoms
            /\ Step(t, [th[t] EXCEPT !.pc = "done", !.result = Ok("unit")])
    /\ UNCHANGED <<debug_assertions, buildVars, polyVars, stringVars, listVars, bankVars, dspVars>>

\* Geometry::set_userdata: self.set_raw_userdata(key.into())?; Ok(())
set_userdata_set_raw_userdata(t) ==
    /\ NoneReturning
    /\ th[t].pc = "write"
    /\ \E code \in UseCodes(th[t].g) :
         /\ geoms' = IF code = "OK"
                     THEN [geoms EXCEPT ![th[t].g].slot = th[t].userdata]
                     ELSE geoms
         /\ Step(t, [th[t] EXCEPT !.pc = "done", !.result = to_result(code)])
    /\ UNCHANGED <<debug_assertions, buildVars, polyVars, table, stringVars, listVars, bankVars, dspVars>>

\* Option<Userdata>
None == [tag |-> "None"]
Some(v) == [tag |-> "Some", value |-> v]

\* userdata::get_userdata: the data under a key, if there is an entry.
get_userdata(key) ==
    IF key \in Keys /\ table[key] # Absent THEN Some(table[key].data) ELSE None

get_userdata_get_raw_userdata(t, g) == Call(t, "get_userdata", g, "none")

\* Geometry::get_userdata: Ok(get_userdata(pointer.into()))
get_userdata_table(t) ==
    /\ NoneReturning
    /\ th[t].pc = "get_userdata"
    /\ Step(t, [th[t] EXCEPT !.pc = "done",
                             !.result = Ok(get_userdata(th[t].userdata))])
    /\ UNCHANGED <<debug_assertions, buildVars, polyVars, geoms, table, stringVars, listVars, bankVars, dspVars>>

\* The caller takes the result; the thread may call again.
GeometryReturn(t) ==
    /\ th[t].pc = "done"
    /\ Step(t, ThIdle)
    /\ UNCHANGED <<debug_assertions, buildVars, polyVars, geoms, table, stringVars, listVars, bankVars, dspVars>>

---------------------------------------------------------------------------
(* DSP units: the engine attaches them to and detaches them from a channel's *)
(* graph (ChannelControl::addDSP / removeDSP); Dsp::release frees them.      *)

Dsps == {"dsp1", "dsp2", "dsp3"}

NoDspCall ==
    [op |-> "none", dsp |-> "none", seen |-> "none", after |-> "none",
     result |-> NoResult]

\* FMOD_DSP_Release: a unit still in a graph is not released and the call
\* returns FMOD_ERR_DSP_INUSE; a detached unit is freed; a unit already
\* freed is a dangling handle.
FMOD_DSP_Release(d) ==
    CASE dsps[d] = "attached" -> {[code |-> "ERR_DSP_INUSE", state |-> "attached"]}
      [] dsps[d] = "detached" -> {[code |-> "OK", state |-> "released"]}
      [] dsps[d] = "released" ->
            {[code |-> c, state |-> "released"] : c \in {"OK", "ERR_INVALID_HANDLE"}}

\* (variant: the result of the native release is dropped)
Dsp_release_suppressing(d) ==
    /\ \E o \in FMOD_DSP_Release(d) :
         /\ dsps' = [dsps EXCEPT ![d] = o.state]
         /\ lastDsp' = [op |-> "release", dsp |-> d, seen |-> dsps[d],
                        after |-> o.state, result |-> Ok("unit")]
    /\ UNCHANGED <<debug_assertions, buildVars, polyVars, stringVars, listVars, bankVars, geomVars>>

\* Dsp::release: FMOD_DSP_Release(self.inner).to_result()
Dsp_release(d) ==
    /\ \E o \in FMOD_DSP_Release(d) :
         /\ dsps' = [dsps EXCEPT ![d] = o.state]
         /\ lastDsp' = [op |-> "release", dsp |-> d, seen |-> dsps[d],
                        after |-> o.state, result |-> to_result(o.code)]
    /\ UNCHANGED <<debug_assertions, buildVars, polyVars, stringVars, listVars, bankVars, geomVars>>

\* ChannelControl::addDSP: the unit is in a channel's graph.
NativeAddDsp(d) ==
    /\ dsps[d] = "detached"
    /\ dsps' = [dsps EXCEPT ![d] = "attached"]
    /\ UNCHANGED <<debug_assertions, buildVars, polyVars, lastDsp, stringVars, listVars, bankVars, geomVars>>

\* ChannelControl::removeDSP: the unit is out of the graph.
NativeRemoveDsp(d) ==
    /\ dsps[d] = "attached"
    /\ dsps' = [dsps EXCEPT ![d] = "detached"]
    /\ UNCHANGED <<debug_assertions, buildVars, polyVars, lastDsp, stringVars, listVars, bankVars, geomVars>>

---------------------------------------------------------------------------
(* The polygons of a Geometry. *)

\* A Geometry as System::create_geometry makes it: the two capacities, no
\* polygon.
NewPolygons(maxpolygons, maxvertices) ==
    [max_polygons |-> maxpolygons, max_vertices |-> maxvertices,
     polygons |-> 0, vertices |-> 0, active |-> TRUE]

NoPolyCall ==
    [op |-> "none", n |-> 0, result |-> NoResult, seen |-> NewPolygons(0, 0)]

\* What the caller has after a call on the polygons: the call, its result
\* and the Geometry it was made on.
PolyReturned(op, n, result) ==
    lastPoly' = [op |-> op, n |-> n, result |-> result, seen |-> poly]

\* The codes of an FMOD_Geometry_AddPolygon that cannot add.
PolygonFailCodes == {"ERR_INVALID_PARAM", "ERR_MEMORY"}

\* FMOD_Geometry_AddPolygon: polygons cannot be added at the maximum number
\* of polygons, or when their vertices would exceed the maximum number of
\* vertices; a polygon that is added gets the next index.
FMOD_Geometry_AddPolygon(numvertices) ==
    IF \/ poly.polygons >= poly.max_polygons
       \/ poly.vertices + numvertices > poly.max_vertices
    THEN {[code |-> e, index |-> 0, poly |-> poly] : e \in PolygonFailCodes}
    ELSE {[code |-> "OK", index |-> poly.polygons,
           poly |-> [poly EXCEPT !.polygons = @ + 1,
                                 !.vertices = @ + numvertices]]}

\* (variant: the result of the native call is dropped)
add_polygon_unchecked(numvertices) ==
    /\ \E o \in FMOD_Geometry_AddPolygon(numvertices) :
         /\ poly' = o.poly
         /\ PolyReturned("add_polygon", numvertices, Ok(o.index))
    /\ UNCHANGED <<debug_assertions, buildVars, stringVars, listVars, bankVars, geomVars, dspVars>>

\* Geometry::add_polygon: FMOD_Geometry_AddPolygon(...).to_result()? and
\* Ok(index).
add_polygon(numvertices) ==
    /\ \E o \in FMOD_Geometry_AddPolygon(numvertices) :
         /\ poly' = o.poly
         /\ PolyReturned("add_polygon", numvertices,
                         IF to_result(o.code).tag = "Err" THEN to_result(o.code)
                         ELSE Ok(o.index))
    /\ UNCHANGED <<debug_assertions, buildVars, stringVars, listVars, bankVars, geomVars, dspVars>>

\* Geometry::set_active: FMOD_Geometry_SetActive.
set_active(active) ==
    /\ poly' = [poly EXCEPT !.active = active]
    /\ PolyReturned("set_active", 0, Ok("unit"))
    /\ UNCHANGED <<debug_assertions, buildVars, stringVars, listVars, bankVars, geomVars, dspVars>>

\* Geometry::get_max_polygons: the two capacities as the engine reports them.
get_max_polygons ==
    /\ PolyReturned("get_max_polygons", 0,
                    Ok(<<poly.max_polygons, poly.max_vertices>>))
    /\ UNCHANGED <<debug_assertions, buildVars, poly, stringVars, listVars, bankVars, geomVars, dspVars>>

\* Geometry::get_polygon_count.
get_polygon_count ==
    /\ PolyReturned("get_polygon_count", 0, Ok(poly.polygons))
    /\ UNCHANGED <<debug_assertions, buildVars, poly, stringVars, listVars, bankVars, geomVars, dspVars>>

---------------------------------------------------------------------------
(* The construction of a Studio System. *)

\* Nothing constructed: the caller holds neither a SystemBuilder nor a
\* System. `created` and `released` count the native Studio Systems that
\* FMOD_Studio_System_Create has made and FMOD_Studio_System_Release has
\* freed.
NothingBuilt ==
    [held |-> "none", settings |-> FALSE, created |-> 0, released |-> 0]

NoBuildCall == [op |-> "none", result |-> NoResult]

BuildReturned(op, result) == lastBuild' = [op |-> op, result |-> result]

\* The native Studio Systems that exist.
NativeSystems == built.created - built.released

CreateCodes == {"OK", "ERR_MEMORY"}
GetCoreSystemCodes == {"OK", "ERR_INTERNAL"}
SetAdvancedSettingsCodes == {"OK", "ERR_INVALID_PARAM"}
InitializeCodes == {"OK", "ERR_OUTPUT_INIT"}

\* SystemBuilder::new: FMOD_Studio_System_Create(...).to_result()?, then
\* FMOD_Studio_System_GetCoreSystem(...).to_result()?, then the builder.
SystemBuilder_new ==
    /\ built.held = "none" /\ built.created < MaxSystems
    /\ \E create \in CreateCodes, core \in GetCoreSystemCodes :
         IF to_result(create).tag = "Err"
         THEN /\ UNCHANGED built
              /\ BuildReturned("SystemBuilder::new", to_result(create))
         ELSE IF to_result(core).tag = "Err"
         THEN /\ built' = [built EXCEPT !.created = @ + 1]
              /\ BuildReturned("SystemBuilder::new", to_result(core))
         ELSE /\ built' = [built EXCEPT !.created = @ + 1,
                                        !.held = "builder", !.settings = FALSE]
              /\ BuildReturned("SystemBuilder::new", Ok("SystemBuilder"))
    /\ UNCHANGED <<debug_assertions, stringVars, listVars, bankVars, geomVars, dspVars, polyVars>>

\* SystemBuilder::settings: FMOD_Studio_System_SetAdvancedSettings.
SystemBuilder_settings ==
    /\ built.held = "builder"
    /\ \E code \in SetAdvancedSettingsCodes :
         /\ built' = IF code = "OK" THEN [built EXCEPT !.settings = TRUE]
                     ELSE built
         /\ BuildReturned("SystemBuilder::settings",
                          IF code = "OK" THEN Ok("SystemBuilder")
                          ELSE to_result(code))
    /\ UNCHANGED <<debug_assertions, stringVars, listVars, bankVars, geomVars, dspVars, polyVars>>

\* SystemBuilder::build (build_with_extra_driver_data): the builder is
\* consumed, FMOD_Studio_System_Initialize(...).to_result()?, then the
\* System.
SystemBuilder_build ==
    /\ built.held = "builder"
    /\ \E code \in InitializeCodes :
         /\ built' = [built EXCEPT
                        !.held = IF code = "OK" THEN "system" ELSE "none"]
         /\ BuildReturned("SystemBuilder::build",
                          IF code = "OK" THEN Ok("System") ELSE to_result(code))
    /\ UNCHANGED <<debug_assertions, stringVars, listVars, bankVars, geomVars, dspVars, polyVars>>

\* System::release of the System that was built: FMOD_Studio_System_Release
\* frees the native Studio System, or fails and frees nothing.
Built_release ==
    /\ built.held = "system"
    /\ \E code \in {"OK"} \cup ReleaseFailCodes :
         /\ built' = IF code = "OK"
                     THEN [built EXCEPT !.held = "none", !.released = @ + 1]
                     ELSE built
         /\ BuildReturned("System::release", to_result(code))
    /\ UNCHANGED <<debug_assertions, stringVars, listVars, bankVars, geomVars, dspVars, polyVars>>

---------------------------------------------------------------------------
(* Specifications. *)

\* No query or call in progress; one text, no objects, no bank.
StringRest == sq = SqIdle /\ nativeText = <<>>
ListRest == lq = LqIdle /\ nativeCount = [k \in Kinds |-> 0]
BankRest ==
    /\ bank = NoBank /\ last = NoCall /\ studio = NewStudio /\ events = {}
    /\ buffer = "none"
DspRest == dsps = [d \in Dsps |-> "detached"] /\ lastDsp = NoDspCall
PolyRest == poly = NewPolygons(0, 0) /\ lastPoly = NoPolyCall
BuildRest == built = NothingBuilt /\ lastBuild = NoBuildCall
GeomRest ==
    /\ geoms = [g \in Geoms |-> NewGeometry]
    /\ table = [k \in Keys |-> Absent]
    /\ th = [t \in Threads |-> ThIdle]
    /\ given = [g \in Geoms |-> "none"]

\* The string queries, on any authored text, in either build profile.
InitString ==
    /\ debug_assertions \in BOOLEAN
    /\ nativeText \in Texts
    /\ sq = SqIdle
    /\ ListRest /\ BankRest /\ GeomRest /\ DspRest /\ PolyRest /\ BuildRest

NextString ==
    \/ \E q \in StringQueries : StringQueryDiscover(q)
    \/ StringQueryFill
    \/ StringQueryReturn
    \/ NativeTextChange

SpecString == InitString /\ [][NextString]_vars

\* The list queries, on any collection, in either build profile.
InitList ==
    /\ debug_assertions \in BOOLEAN
    /\ nativeCount \in [Kinds -> 0..MaxCount]
    /\ lq = LqIdle
    /\ StringRest /\ BankRest /\ GeomRest /\ DspRest /\ PolyRest /\ BuildRest

NextList ==
    \/ \E q \in ListQueries : ListQueryCount(q)
    \/ ListQueryFill
    \/ ListQueryReturn
    \/ \E k \in Kinds : NativeCountChange(k)

SpecList == InitList /\ [][NextList]_vars

\* The bank: loads, polls, sample data requests and unloads by the caller,
\* progress by the engine.
Init ==
    /\ debug_assertions \in BOOLEAN
    /\ BankRest
    /\ StringRest /\ ListRest /\ GeomRest /\ DspRest /\ PolyRest /\ BuildRest

Next ==
    \/ \E f \in LoadBankFlags : load_bank_file(f)
    \/ \E f \in LoadBankFlags : load_bank_memory(f)
    \/ \E f \in LoadBankFlags : load_bank_pointer(f)
    \/ NativeLoadFinish
    \/ \E e \in LoadFailCodes : NativeLoadFail(e)
    \/ get_loading_state
    \/ get_sample_loading_state
    \/ load_sample_data
    \/ unload_sample_data
    \/ NativeSampleLoadingFinish
    \/ unload
    \/ NativeUnloadFinish
    \/ \E d \in Data : Bank_set_userdata(d)
    \/ Bank_get_event_list
    \/ \E id \in 1..MaxLoads : EventDescription_get_sample_loading_state(id)
    \/ free_after_get_loading_state
    \/ free_after_callback

Spec == Init /\ [][Next]_vars

\* A Studio System with the banks that stay loaded, and the calls that load
\* and unload a bank, list the banks, query validity and release the System.
InitSystem ==
    /\ debug_assertions \in BOOLEAN
    /\ bank = NoBank /\ last = NoCall /\ events = {} /\ buffer = "none"
    /\ \E n \in 0..MaxOthers : studio = [NewStudio EXCEPT !.others = n]
    /\ StringRest /\ ListRest /\ GeomRest /\ DspRest /\ PolyRest /\ BuildRest

NextSystem ==
    \/ \E f \in LoadBankFlags : load_bank_memory(f)
    \/ NativeLoadFinish
    \/ \E e \in LoadFailCodes : NativeLoadFail(e)
    \/ unload
    \/ NativeUnloadFinish
    \/ Bank_set_userdata("d1")
    \/ Bank_get_event_list
    \/ \E id \in 1..MaxLoads : Bank_is_valid(id)
    \/ \E id \in 1..MaxLoads : EventDescription_is_valid(id)
    \/ System_is_valid
    \/ System_release
    \/ bank_count
    \/ get_bank_list

SpecSystem == InitSystem /\ [][NextSystem]_vars

\* The geometries, created with no userdata, and the calls of two threads.
InitGeom ==
    /\ debug_assertions = TRUE
    /\ GeomRest
    /\ StringRest /\ ListRest /\ BankRest /\ DspRest /\ PolyRest /\ BuildRest

\* The history of the set_userdata calls is kept for one caller only.
NoHistory == UNCHANGED given

NextGeom ==
    \E t \in Threads :
        \/ \E g \in Geoms : release_get_raw_userdata(t, g) /\ NoHistory
        \/ \E g \in Geoms :
              set_userdata_get_raw_userdata(t, g, DataOf(t)) /\ NoHistory
        \/ release_native(t) /\ NoHistory
        \/ release_remove_userdata(t) /\ NoHistory
        \/ release_set_raw_userdata(t) /\ NoHistory
        \/ set_userdata_table(t) /\ NoHistory
        \/ set_userdata_set_raw_userdata(t) /\ NoHistory
        \/ GeometryReturn(t) /\ NoHistory

SpecGeom == InitGeom /\ [][NextGeom]_vars

\* One caller: its calls on the geometries follow one another.
Caller == "t1"

\* The history of the caller's set_userdata calls: `given` takes the data of
\* a Geometry::set_userdata at the step that makes it return Ok.
SetUserdataReturnsOk(t) ==
    /\ th[t].op = "set_userdata" /\ th[t].pc # "done"
    /\ th'[t].pc = "done" /\ th'[t].result = Ok("unit")

History(t) ==
    given' = IF SetUserdataReturnsOk(t)
             THEN [given EXCEPT ![th[t].g] = th[t].data]
             ELSE given

NextGeomSeq ==
    \/ \E g \in Geoms : release_get_raw_userdata(Caller, g) /\ NoHistory
    \/ \E g \in Geoms, d \in Data :
          set_userdata_get_raw_userdata(Caller, g, d) /\ NoHistory
    \/ \E g \in Geoms : get_userdata_get_raw_userdata(Caller, g) /\ NoHistory
    \/ release_native(Caller) /\ NoHistory
    \/ release_remove_userdata(Caller) /\ NoHistory
    \/ release_set_raw_userdata(Caller) /\ NoHistory
    \/ set_userdata_table(Caller) /\ History(Caller)
    \/ set_userdata_set_raw_userdata(Caller) /\ History(Caller)
    \/ get_userdata_table(Caller) /\ NoHistory
    \/ GeometryReturn(Caller) /\ NoHistory

SpecGeomSeq == InitGeom /\ [][NextGeomSeq]_vars

\* The DSP units, created detached, with the engine's graph changes.
InitDsp ==
    /\ debug_assertions = TRUE
    /\ DspRest
    /\ StringRest /\ ListRest /\ BankRest /\ GeomRest /\ PolyRest /\ BuildRest

NextDsp ==
    \E d \in Dsps :
        \/ Dsp_release(d)
        \/ NativeAddDsp(d)
        \/ NativeRemoveDsp(d)

SpecDsp == InitDsp /\ [][NextDsp]_vars

\* A Geometry created with any capacities, and the calls on its polygons.
InitPoly ==
    /\ debug_assertions = TRUE
    /\ \E maxpolygons \in 0..MaxPolygons, maxvertices \in 0..MaxVertices :
         poly = NewPolygons(maxpolygons, maxvertices)
    /\ lastPoly = NoPolyCall
    /\ StringRest /\ ListRest /\ BankRest /\ GeomRest /\ DspRest /\ BuildRest

NextPoly ==
    \/ \E numvertices \in 1..MaxVertices : add_polygon(numvertices)
    \/ \E active \in BOOLEAN : set_active(active)
    \/ get_max_polygons
    \/ get_polygon_count

SpecPoly == InitPoly /\ [][NextPoly]_vars

\* The construction and release of Studio Systems, one after the other, in
\* either build profile.
InitBuild ==
    /\ debug_assertions \in BOOLEAN
    /\ BuildRest
    /\ StringRest /\ ListRest /\ BankRest /\ GeomRest /\ DspRest /\ PolyRest

NextBuild ==
    \/ SystemBuilder_new
    \/ SystemBuilder_settings
    \/ SystemBuilder_build
    \/ Built_release

SpecBuild == InitBuild /\ [][NextBuild]_vars

---------------------------------------------------------------------------
(* Claims about the two-phase string queries (under SpecString). *)

\* C1: when the discovery call of a string query returns the truncation
\* code, the query has not returned and goes on to the fill call; when it
\* returns any other non-success code, the query has returned exactly that
\* code and the fill call was never made.
C1_DiscoveryCodeHandling ==
    /\ (sq.discCode = "ERR_TRUNCATED" /\ sq.fillCalls = 0)
          => (sq.pc = "fill" /\ sq.result.tag = "None")
    /\ sq.discCode \in FailCodes
          => (sq.pc = "done" /\ sq.result = Err(sq.discCode)
              /\ sq.fillCalls = 0)

\* C1 witness: the discovery call returned the truncation code and the query
\* stands before its fill call.
C1_Witness ==
    sq.q = "Bank.get_path" /\ sq.discCode = "ERR_TRUNCATED" /\ sq.pc = "fill"

\* C2: when the fill call succeeds but echoes a size other than the size the
\* discovery call reported, the query does not return Ok with a text.
C2_MismatchRejected ==
    (sq.pc = "done" /\ sq.fillCode = "OK"
       /\ sq.expected_string_len # sq.string_len)
    => sq.result.tag # "Ok"

\* C5 as stated: a string query never returns the truncation code as its
\* error, whichever of its two native calls produced it.
C5_TruncationNeverReturned ==
    sq.pc = "done" => ~(sq.result.tag = "Err" /\ sq.result.code = "ERR_TRUNCATED")

\* C5 as amended: a string query never returns the truncation code of its
\* discovery call; it returns the truncation code exactly when its fill call
\* produced it.
C5_TruncationOnlyFromFill ==
    sq.pc = "done" =>
        ((sq.result.tag = "Err" /\ sq.result.code = "ERR_TRUNCATED")
            <=> (sq.fillCalls = 1 /\ sq.fillCode = "ERR_TRUNCATED"))

\* C5 witness: the discovery call returned the truncation code, the text grew
\* and the fill call returned the truncation code, which the query returns.
C5_Witness ==
    /\ sq.pc = "done" /\ sq.discCode = "ERR_TRUNCATED"
    /\ sq.fillCode = "ERR_TRUNCATED"
    /\ sq.result = Err("ERR_TRUNCATED")

\* C20: the string a string query returns is the authored text: it has the
\* length of the text, which is the size the engine reported less the
\* terminator, and no terminator byte is part of it.
C20_ReturnsAuthoredText ==
    (sq.pc = "done" /\ sq.result.tag = "Ok") =>
        /\ Len(sq.result.value) = sq.expected_string_len - 1
        /\ \A i \in 1..Len(sq.result.value) : sq.result.value[i] # 0

---------------------------------------------------------------------------
(* Claims about the two-phase list queries (under SpecList). *)

\* C3: a list query that returns Ok returns as many entries as the list call
\* wrote, which is the count the count call reported.
C3_CountsAgree ==
    (lq.pc = "done" /\ lq.result.tag = "Ok")
    => (Len(lq.result.value) = lq.count /\ lq.count = lq.expected_count)

\* C4: a successful get_vca_list on an unchanged bank returns as many entries
\* as the bank has VCAs, each a VCA handle written by the list call.
C4_VcaListHasVcaCount ==
    (lq.pc = "done" /\ lq.q = "Bank.get_vca_list" /\ lq.result.tag = "Ok"
       /\ ~lq.changed)
    => /\ Len(lq.result.value) = nativeCount["vca"]
       /\ \A i \in 1..Len(lq.result.value) : lq.result.value[i].kind = "vca"

---------------------------------------------------------------------------
(* Claims about bank loading (under Spec). *)

LoadOps == {"load_bank_file", "load_bank_memory", "load_bank_pointer"}

\* C6: for a bank whose metadata is Loaded and for which load_sample_data
\* was never requested, get_sample_loading_state returns Unloaded.
C6_SampleStateIndependent ==
    (last.op = "get_sample_loading_state" /\ last.seen.exists
       /\ last.seen.state = "Loaded" /\ ~last.seen.sampleRequested)
    => (last.result.tag = "Ok" /\ last.result.value.state = "Unloaded")

C8_NonblockingPollNeverUnloaded ==
    (last.op = "get_loading_state" /\ last.seen.exists
       /\ last.seen.flags = "NONBLOCKING" /\ last.seen.state # "Unloading")
    => /\ last.result.tag = "Ok"
       /\ last.result.value.state \in {"Loading", "Loaded", "Error"}
       /\ last.result.value.state = "Error" => last.seen.error # "None"

\* C8 witness: a poll of a NONBLOCKING bank whose load is still pending
\* returned Loading.
C8_Witness ==
    /\ last.op = "get_loading_state"
    /\ last.seen.flags = "NONBLOCKING"
    /\ last.seen.state = "Loading"
    /\ last.result = Ok(LoadingState("Loading", "None"))

C14_UnloadKeepsUserdata ==
    /\ (bank.exists /\ bank.slot # NullPtr)
          => (table[bank.slot] # Absent /\ table[bank.slot].owner = "bank")
    /\ (last.op = "unload" /\ bank.state = "Unloading" /\ last.seen.slot # NullPtr)
          => table[last.seen.slot] # Absent

\* C14 witness: unload has returned Ok for a bank with an association, the
\* bank is unloading and the association is still in the table.
C14_Witness ==
    /\ last.op = "unload" /\ last.result = Ok("unit")
    /\ bank.state = "Unloading" /\ bank.slot # NullPtr
    /\ table[bank.slot] = Entry("d1", "bank")

\* The sample data is resident, or on its way to be.
SampleDataResident == bank.sampleState \in {"Loading", "Loaded"}

\* C15: on a loaded bank the sample data is resident exactly as long as the
\* load_sample_data calls that returned Ok outnumber the unload_sample_data
\* calls that returned Ok; it is unloaded only when every load request has
\* been matched by an unload request.
C15_SampleDataReferenceCounted ==
    (bank.exists /\ bank.state = "Loaded") =>
        /\ last.balance >= 0
        /\ last.balance > 0 => SampleDataResident
        /\ last.balance = 0 => ~SampleDataResident

\* C15 witness: after two load requests and one unload request the sample
\* data is still loaded.
C15_Witness ==
    /\ bank.exists /\ bank.state = "Loaded"
    /\ last.op = "unload_sample_data" /\ last.result = Ok("unit")
    /\ last.seen.sampleRequests = 2 /\ last.balance = 1
    /\ bank.sampleState = "Loaded"

\* C16: Bank::unload on a bank that exists returns Ok and starts the unload
\* whatever the number of sample data requests, and once the unload has
\* completed the sample data is not resident.
C16_UnloadUnloadsSampleData ==
    /\ (last.op = "unload" /\ last.seen.exists)
          => (last.result = Ok("unit") /\ (bank.state = "Unloading" \/ ~bank.exists))
    /\ (bank.handed /\ ~bank.exists) => ~SampleDataResident

\* C16 witness: the unload of a bank with a sample data request not matched
\* by an unload request has completed, and the sample data is unloaded.
C16_Witness ==
    /\ last.op = "unload" /\ last.result = Ok("unit")
    /\ last.balance > 0 /\ last.seen.sampleState = "Loaded"
    /\ ~bank.exists /\ bank.sampleState = "Unloaded"

\* A step in which a call of `op` returns (a call that repeats the last
\* call, on the same bank and with the same outcome, leaves no trace).
CallStep(op) ==
    /\ last'.op = op
    /\ \/ last.op # op
       \/ last'.result.tag # last.result.tag
       \/ last'.seen # last.seen

C24_FreedAfterUnloadCompleted ==
    /\ buffer = "freed" => ~EngineReadsBuffer
    /\ (bank.exists /\ bank.loadedBy = "load_bank_pointer"
          /\ bank.state = "Unloading") => (EngineReadsBuffer /\ buffer = "held")

\* C24 witness: the caller saw get_loading_state fail on the stale handle of
\* the second bank, loaded by load_bank_pointer and unloaded, and has freed
\* the memory.
C24_Witness ==
    /\ buffer = "freed"
    /\ last.op = "get_loading_state" /\ last.result = Err("ERR_INVALID_HANDLE")
    /\ last.seen.id = 2 /\ studio.unloaded = {1, 2}

\* The queries of the loading states.
StateQueries ==
    {"get_loading_state", "get_sample_loading_state",
     "EventDescription::get_sample_loading_state"}

\* C27: a call of Bank::get_loading_state, Bank::get_sample_loading_state
\* or EventDescription::get_sample_loading_state leaves the loading state
\* of the metadata, the loading state of the sample data and the count of
\* the sample data requests as they are, whatever it returns.
C27_StateQueriesOnlyPoll ==
    [][\A op \in StateQueries :
          CallStep(op) =>
              /\ bank'.state = bank.state
              /\ bank'.sampleState = bank.sampleState
              /\ bank'.sampleRequests = bank.sampleRequests
              /\ bank'.exists = bank.exists
              /\ last'.balance = last.balance]_vars

\* C27 witness: EventDescription::get_sample_loading_state has returned
\* Loading for a bank with two sample data requests outstanding, and the
\* sample data is still loading.
C27_Witness ==
    /\ last.op = "EventDescription::get_sample_loading_state"
    /\ last.result = Ok(LoadingState("Loading", "None"))
    /\ bank.exists /\ bank.state = "Loaded"
    /\ bank.sampleState = "Loading" /\ bank.sampleRequests = 2

---------------------------------------------------------------------------
(* Claims about the Studio System and its handles (under SpecSystem). *)

\* The validity queries of the handles of a bank.
BankValidityQueries == {"Bank::is_valid", "EventDescription::is_valid"}
ValidityQueries == BankValidityQueries \cup {"System::is_valid"}

\* C17 as stated: every validity query on the handle of a bank whose unload
\* has completed, or on an event description of that bank, returns false,
\* whenever it is made.
C17_UnloadedNeverValid ==
    (last.op \in BankValidityQueries /\ last.arg \in last.sys.unloaded)
        => last.result = Bool(FALSE)

\* C17 amended: as long as the Studio System has not been released, every
\* validity query on the handle of a bank whose unload has completed, or on
\* an event description of that bank, returns false.
C17_UnloadedNeverValidWhileSystemAlive ==
    (/\ last.op \in BankValidityQueries
     /\ last.arg \in last.sys.unloaded
     /\ last.sys.alive)
        => last.result = Bool(FALSE)

\* C17 witness: an event description of the first bank is reported invalid
\* after the bank was unloaded and a second bank was loaded.
C17_Witness ==
    /\ last.op = "EventDescription::is_valid" /\ last.arg = 1
    /\ 1 \in last.sys.unloaded /\ last.sys.alive
    /\ last.seen.exists /\ last.seen.id = 2 /\ last.seen.state = "Loaded"
    /\ last.result = Bool(FALSE)

Range(list) == {list[i] : i \in 1..Len(list)}

\* C19: with a bank loaded by a load that returned it, bank_count returns
\* one more than it returns without that bank, and get_bank_list returns
\* that many handles, the bank's handle among them; once the bank's unload
\* has completed, bank_count is back to the count without it and
\* get_bank_list returns no handle of the bank.
C19_BankCountedAndListed ==
    /\ (last.op = "bank_count" /\ last.seen.exists /\ last.seen.state = "Loaded")
          => last.result = Ok(last.sys.others + 1)
    /\ (last.op = "bank_count" /\ ~last.seen.exists)
          => last.result = Ok(last.sys.others)
    /\ (last.op = "get_bank_list" /\ last.seen.exists /\ last.seen.state = "Loaded")
          => /\ last.result.tag = "Ok"
             /\ Len(last.result.value) = last.sys.others + 1
             /\ Handle("bank", last.seen.id) \in Range(last.result.value)
    /\ (last.op = "get_bank_list" /\ ~last.seen.exists)
          => /\ last.result.tag = "Ok"
             /\ Len(last.result.value) = last.sys.others
             /\ \A id \in 1..MaxLoads :
                   Handle("bank", id) \notin Range(last.result.value)

\* C19 witness: after the first bank was unloaded, a second bank was loaded
\* synchronously by load_bank_memory next to a bank that stays loaded, and
\* get_bank_list returned the two handles, the first bank's not among them.
C19_Witness ==
    /\ last.op = "get_bank_list" /\ last.sys.others = 1
    /\ last.seen.exists /\ last.seen.id = 2 /\ last.seen.state = "Loaded"
    /\ last.seen.loadedBy = "load_bank_memory" /\ last.seen.flags = "NORMAL"
    /\ 1 \in last.sys.unloaded
    /\ last.result = Ok(<<Handle("bank", MaxLoads + 1), Handle("bank", 2)>>)

---------------------------------------------------------------------------
(* Claims about Geometry (under SpecGeom). *)

\* C10: a Geometry::release call that returns an error has removed no
\* association from the userdata table.
C10_FailedReleaseKeepsTable ==
    \A t \in Threads :
        (th[t].op = "release" /\ th[t].pc = "done" /\ th[t].result.tag = "Err")
        => ~th[t].removed

\* The steps of a Geometry::release that finds an association, in the order
\* of the code.
ReleaseOrder ==
    <<"get_raw_userdata", "FMOD_Geometry_Release", "remove_userdata",
      "set_raw_userdata">>

IsPrefix(p, q) == Len(p) <= Len(q) /\ \A i \in 1..Len(p) : p[i] = q[i]

\* C11: the steps a Geometry::release has taken are always a beginning of:
\* read the userdata slot, native release (succeeded), remove the
\* association, clear the slot.  So the slot is read before the native
\* release and never after it, and the association is removed only from a
\* Geometry whose native release has succeeded.
C11_ReleaseInOrder ==
    \A t \in Threads :
        th[t].op = "release" =>
            /\ IsPrefix(th[t].steps, ReleaseOrder)
            /\ th[t].pc \in {"remove", "clear"} =>
                  (Len(th[t].steps) >= 2 /\ ~geoms[th[t].g].alive)
            /\ th[t].removed => ~geoms[th[t].g].alive

\* C11 witness: a release that found an association has taken all four
\* steps and returned Ok.
C11_Witness ==
    \E t \in Threads :
        /\ th[t].op = "release" /\ th[t].pc = "done"
        /\ th[t].steps = ReleaseOrder /\ th[t].removed
        /\ th[t].result = Ok("unit")

\* C12: when no call is in progress, the userdata table holds no entry
\* inserted for a Geometry that has been released.
C12_NoEntryOfReleasedGeometry ==
    (\A t \in Threads : th[t].pc = "idle") =>
        \A k \in Keys :
            table[k] # Absent => geoms[table[k].owner].alive

\* A step in which thread t's set_userdata inserts into the table.
InsertStep(t) == th[t].pc = "set_userdata" /\ th'[t].pc = "write"

NoneReleasedTwice == \A g \in Geoms : geoms[g].releases < 2

C29_NoOrphanEntry ==
    (/\ \A g \in Geoms : geoms[g].alive
     /\ \A t \in Threads : th[t].pc = "idle")
        => \A k \in Keys :
              table[k] # Absent
                  => Cardinality({g \in Geoms : geoms[g].slot = k}) = 1

---------------------------------------------------------------------------
(* Claims about the userdata of a Geometry with one caller (under         *)
(* SpecGeomSeq).                                                          *)

\* C21: a Geometry::get_userdata returns the data of the last set_userdata
\* that returned Ok on the Geometry, and absent when there was none; and
\* once a release has removed the association, the table has no data under
\* the key it was kept under.
C21_UserdataRoundTrip ==
    \A t \in Threads :
        /\ (th[t].op = "get_userdata" /\ th[t].pc = "done")
              => th[t].result =
                    Ok(IF given[th[t].g] = "none" THEN None
                       ELSE Some(given[th[t].g]))
        /\ (th[t].op = "release" /\ th[t].pc = "clear")
              => get_userdata(th[t].userdata) = None

\* C21 witness: get_userdata returned the data given to a Geometry that
\* has an association, while the other Geometry was given other data.
C21_Witness ==
    \E t \in Threads :
        /\ th[t].op = "get_userdata" /\ th[t].pc = "done"
        /\ th[t].result = Ok(Some("d2"))
        /\ geoms[th[t].g].alive /\ geoms[th[t].g].slot # NullPtr
        /\ \E g \in Geoms : g # th[t].g /\ given[g] = "d1"

\* C28: a Geometry::release of the one caller returns an error exactly when
\* the native Geometry has not been released: Ok once the native release
\* has succeeded, also for a Geometry that had a userdata association.
C28_ErrorExactlyWhenNotReleased ==
    \A t \in Threads :
        (th[t].op = "release" /\ th[t].pc = "done")
            => (th[t].result.tag = "Err" <=> geoms[th[t].g].alive)

---------------------------------------------------------------------------
(* Claims about the polygons of a Geometry (under SpecPoly). *)

\* A step in which a call of `op` on the polygons returns (a call that
\* repeats the last call, on the same Geometry and with the same outcome,
\* leaves no trace).
PolyStep(op) ==
    /\ lastPoly'.op = op
    /\ \/ lastPoly.op # op
       \/ lastPoly'.n # lastPoly.n
       \/ lastPoly'.seen # lastPoly.seen
       \/ lastPoly'.result.tag # lastPoly.result.tag

\* The Geometry cannot take a polygon of n vertices.
AtCapacity(n) ==
    \/ poly.polygons >= poly.max_polygons
    \/ poly.vertices + n > poly.max_vertices

\* C25: no call changes the two capacities of a Geometry, and
\* get_max_polygons returns them; add_polygon fails and leaves the polygon
\* count as it is when the Geometry is at its maximum number of polygons or
\* the polygon's vertices would exceed the maximum number of vertices, and
\* when it succeeds the polygon count has grown by one.
C25_CapacityFixedAtCreation ==
    [][/\ poly'.max_polygons = poly.max_polygons
       /\ poly'.max_vertices = poly.max_vertices
       /\ PolyStep("get_max_polygons") =>
             lastPoly'.result = Ok(<<poly.max_polygons, poly.max_vertices>>)
       /\ PolyStep("add_polygon") =>
             /\ AtCapacity(lastPoly'.n) => lastPoly'.result.tag = "Err"
             /\ lastPoly'.result.tag = "Err" =>
                   poly'.polygons = poly.polygons
             /\ lastPoly'.result.tag = "Ok" =>
                   /\ poly'.polygons = poly.polygons + 1
                   /\ lastPoly'.result = Ok(poly.polygons)]_vars

\* C25 witness: add_polygon has failed on a Geometry that holds a polygon
\* and has room for another, whose vertices would exceed the maximum number
\* of vertices; the polygons are as they were.
C25_Witness ==
    /\ lastPoly.op = "add_polygon" /\ lastPoly.result.tag = "Err"
    /\ lastPoly.seen.polygons = 1 /\ lastPoly.seen.max_polygons = 2
    /\ lastPoly.seen.vertices + lastPoly.n > lastPoly.seen.max_vertices
    /\ poly = lastPoly.seen

---------------------------------------------------------------------------
(* Claims about the construction of a Studio System (under SpecBuild). *)

\* C30: when SystemBuilder::new or SystemBuilder::build has returned an
\* error, no native Studio System exists (the one that
\* FMOD_Studio_System_Create made has been released), and at no time do two
\* native Studio Systems exist.
C30_NoNativeSystemLeftBehind ==
    /\ (/\ lastBuild.op \in {"SystemBuilder::new", "SystemBuilder::build"}
        /\ lastBuild.result.tag = "Err")
           => NativeSystems = 0
    /\ NativeSystems <= 1

---------------------------------------------------------------------------
(* Claims about DSP units (under SpecDsp). *)

\* C13: a Dsp::release on a unit that is in a channel's graph returns
\* FMOD_ERR_DSP_INUSE and leaves the unit in the graph, not freed; a
\* Dsp::release that returns Ok was made on a unit that was not in a graph.
C13_ReleaseInUse ==
    lastDsp.op = "release" =>
        /\ lastDsp.seen = "attached" =>
              (lastDsp.result = Err("ERR_DSP_INUSE") /\ lastDsp.after = "attached")
        /\ lastDsp.result.tag = "Ok" => lastDsp.seen # "attached"
        /\ lastDsp.seen = "detached" =>
              (lastDsp.result = Ok("unit") /\ lastDsp.after = "released")

\* C13 witness: a release of an attached unit returned FMOD_ERR_DSP_INUSE,
\* the unit was detached afterwards and is still not freed.
C13_Witness ==
    /\ lastDsp.op = "release" /\ lastDsp.seen = "attached"
    /\ lastDsp.result = Err("ERR_DSP_INUSE")
    /\ dsps[lastDsp.dsp] = "detached"

=============================================================================
